---- MODULE Spec2Model ----
(***************************************************************************)
(* Model of JS-Design-Patterns, first the Retry pattern                    *)
(* (src/retry/index.js).                                                   *)
(*                                                                         *)
(* retryOperation(operation, retries, delay) returns a promise (`outer')   *)
(* and drives attemptOperation: every attempt calls operation(), chains    *)
(* .then(resolve) and .catch(handler) on the returned promise, and the     *)
(* handler either rejects the outer promise or decrements the closure      *)
(* variable `retries' and arms a timer that runs attemptOperation again.   *)
(*                                                                         *)
(* Several invocations of retryOperation run on one event loop; each owns  *)
(* its closure (retries, delay, resolve, reject).  The operation is, as in *)
(* the repository (fetchData), a function that returns a promise; when and *)
(* how that promise settles is chosen by the environment.                  *)
(*                                                                         *)
(* The other snippets of the repository are modelled after it, each with   *)
(* its own specification over the same variables: the Singleton and the    *)
(* Factory (CreationalSpec), the Observer (ObserverSpec), the Builder      *)
(* (BuilderSpec), the Strategy (StrategySpec), the Proxy (ProxySpec), the  *)
(* Iterator (IteratorSpec, and IteratorsSpec with two iterators) and the   *)
(* Visitor (VisitorSpec).                                                  *)
(***************************************************************************)
EXTENDS Integers, Sequences, FiniteSets

\* ---- bounds of the model ------------------------------------------------
MaxRetries == 3          \* largest `retries' argument
MaxDelay == 2            \* largest `delay' argument (ms)
MaxTime == 2             \* the clock may always advance up to here
MaxNew == 3              \* `new DatabaseConnection()' calls
MaxCreate == 2           \* createPizza calls
MaxSubscribers == 3      \* length of channel.subscribers
MaxUploads == 2          \* uploadVideo calls
MaxToppings == 2         \* addTopping calls
MaxPizzas == 2           \* build calls
MaxPayments == 2         \* processPayment calls
MaxConnects == 4         \* ProxyInternetAccess.connectTo calls
MaxSongs == 3            \* addSong calls
MaxCalls == 6            \* next / previous calls on the one iterator
MaxConcCalls == 2        \* next / previous calls on each of two iterators
MaxAccepts == 2          \* accept calls
MaxPrice == 10           \* largest price besides the laptop's

\* The calls of retryOperation that may be in progress on the event loop.
Invocations == {1, 2}
RetriesArgs == (0 - 1)..MaxRetries
DelayArgs == 0..MaxDelay
Args == RetriesArgs \X DelayArgs

\* The arguments used where two calls run side by side.
ConcArgs == (0 .. 1) \X (0 .. 1)

\* The call the README makes: retryOperation(fetchData, 1000, 3).
ReadmeSecondArg == 1000
ReadmeThirdArg == 3
Values == {"42", "todo"}
Reasons == {"network error", "timeout"}

\* ---- values ---------------------------------------------------------------
Undefined == "undefined"
NoTimer == 0 - 1

NoPromise == [state |-> "none", value |-> Undefined]
PendingPromise == [state |-> "pending", value |-> Undefined]

Fulfilled(v) == [state |-> "fulfilled", value |-> v]

Rejected(e) == [state |-> "rejected", value |-> e]

Settled(p) == p.state \in {"fulfilled", "rejected"}

\* new Error(message): an object with a message and no cause.
NewError(message) == [message |-> message, cause |-> Undefined]

ExhaustedError == NewError("Maximum retries exhausted!")

\* The resolve / reject functions of the outer promise: only the first call
\* on a pending promise settles it.
ResolveWithoutValue(p, v) == IF p.state = "pending" THEN Fulfilled(Undefined) ELSE p

Resolve(p, v) == IF p.state = "pending" THEN Fulfilled(v) ELSE p

RejectForgotten(p, e) == p

Reject(p, e) == IF p.state = "pending" THEN Rejected(e) ELSE p

\* ---- the pieces of the catch handler ----------------------------------
ExhaustedAtZero(r) == r = 0

ExhaustedOneLate(r) == r < 0

ExhaustedOneEarly(r) == r <= 1

\* if (retries <= 0)
Exhausted(r) == r <= 0

DecrementForgotten(r) == r

DecrementByTwo(r) == r - 2

\* retries--
Decrement(r) == r - 1

setTimeoutIgnoringDelay(t, d) == t

\* setTimeout(attemptOperation, delay), armed at time t: the earliest time
\* at which the callback may run.
setTimeout(t, d) == t + d

AfterFireRearmed(t, d) == t + d

\* setTimeout is one-shot: a timer that has run its callback at time t is
\* gone.
AfterFire(t, d) == NoTimer

HandlerRunsAlways(p) == TRUE

\* .catch(handler): the handler runs for a rejected promise only.
HandlerRuns(p) == p.state = "rejected"

VARIABLES
  clients,     \* clients[i]: the <<retries, delay>> the client code may
               \* pass in call i; empty if it does not make call i
  now,         \* clock of the event loop (ms)
  called,      \* called[i]: retryOperation has been called for invocation i
  maxRetries,  \* the `retries' argument as passed by the caller
  retries,     \* the closure variable `retries'
  delay,       \* the `delay' argument
  outer,       \* the promise returned by retryOperation
  opPromise,   \* the promise returned by the latest operation()
  chained,     \* opPromise.then(resolve)
  caught,      \* chained.catch(handler)
  timer,       \* due time of the pending setTimeout, or NoTimer
  calls,       \* number of operation() calls made so far
  inFlight,    \* number of operation() calls whose promise is still pending
  fails,       \* number of operation promises that rejected so far
  trace,       \* the values printed by console.log("Retries Left: ", retries)
  calledAt,    \* time at which retryOperation was called
  invokedAt    \* time of the latest operation() call

retryVars == <<clients, now, called, maxRetries, retries, delay, outer,
               opPromise, chained, caught, timer, calls, inFlight, fails,
               trace, calledAt, invokedAt>>

\* ---- the other snippets: plain objects, no event loop ------------------
NoObject == 0

VARIABLES
  \* Singleton (DatabaseConnection)
  dbInstance,    \* DatabaseConnection.instance: an object, or NoObject
  dbObjects,     \* number of objects allocated by `new DatabaseConnection()'
  dbReturned,    \* the object each `new DatabaseConnection()' evaluated to
  dbConnects,    \* number of runs of connectToDatabase
  \* Factory (PizzaFactory)
  factoryLog,    \* outcome of each createPizza call of the client
  \* Observer (YouTubeChannel)
  subscribers,   \* channel.subscribers
  uploads,       \* the titles passed to uploadVideo, in call order
  notifications, \* the update calls made by the latest uploadVideo
  unsubscribed,  \* unsubscribed[s]: the latest subscribe / unsubscribe call
                 \* for s was unsubscribe
  \* Builder (PizzaBuilder)
  builder,       \* the fields of the PizzaBuilder
  arrays,        \* the array objects on the heap, by reference
  pizzas,        \* the Pizza objects built so far
  asBuilt,       \* what each Pizza looked like when build() returned it
  \* Strategy (PaymentProcessor)
  processor,     \* the PaymentProcessor: whether it is constructed, the
                 \* argument its constructor was given, its strategy
                 \* field, and whether setStrategy has been called
  payLog,        \* outcome of each processPayment call
  \* Proxy (ProxyInternetAccess)
  blockedSites,  \* proxy.blockedSites
  requested,     \* the sites passed to ProxyInternetAccess.connectTo
  forwarded,     \* the sites passed to InternetAccess.connectTo
  \* Iterator (Playlist, PlaylistIterator)
  songs,         \* playlist.songs
  iterators,     \* the PlaylistIterator objects: whether getIterator has
                 \* returned it, and its currentIndex
  itLog,         \* the next / previous calls made on each iterator
  addedSince,    \* addedSince[i]: addSong was called after getIterator
                 \* returned iterator i
  itBudget,      \* the number of next / previous calls the client code
                 \* makes on each iterator
  \* Visitor (TaxVisitor)
  taxLog         \* the accept calls made: product, method reached, result

singletonVars == <<dbInstance, dbObjects, dbReturned, dbConnects>>
factoryVars == <<factoryLog>>
observerVars == <<subscribers, uploads, notifications, unsubscribed>>
builderVars == <<builder, arrays, pizzas, asBuilt>>
strategyVars == <<processor, payLog>>
proxyVars == <<blockedSites, requested, forwarded>>
iteratorVars == <<songs, iterators, itLog, addedSince, itBudget>>
visitorVars == <<taxLog>>

objectVars == <<singletonVars, factoryVars, observerVars, builderVars,
                strategyVars, proxyVars, iteratorVars, visitorVars>>

vars == <<retryVars, objectVars>>

\* The subscribers of the client code, by name.
Subscribers == {"User1", "User2"}

\* The PlaylistIterator objects the client code may obtain.
Iterators == {1, 2}

\* this.blockedSites = ["restrictedSite.com", "blockedSite.com"]
InitialBlockedSites == <<"restrictedSite.com", "blockedSite.com">>

\* The state of the other snippets once their classes are defined and the
\* channel, the builder and the proxy are constructed.
InitObjects ==
  /\ dbInstance = NoObject
  /\ dbObjects = 0
  /\ dbReturned = <<>>
  /\ dbConnects = 0
  /\ factoryLog = <<>>
  /\ subscribers = <<>>
  /\ uploads = <<>>
  /\ notifications = <<>>
  /\ unsubscribed = [s \in Subscribers |-> FALSE]
  /\ builder = [size |-> "medium", crust |-> "thin", cheese |-> FALSE,
                toppings |-> 1]
  /\ arrays = <<(<<>>)>>
  /\ pizzas = <<>>
  /\ asBuilt = <<>>
  /\ processor = [constructed |-> FALSE, arg |-> Undefined,
                  strategy |-> Undefined, set |-> FALSE]
  /\ payLog = <<>>
  /\ blockedSites = InitialBlockedSites
  /\ requested = <<>>
  /\ forwarded = <<>>
  /\ songs = <<>>
  /\ iterators = [i \in Iterators |-> [created |-> FALSE, currentIndex |-> 0]]
  /\ itLog = [i \in Iterators |-> <<>>]
  /\ addedSince = [i \in Iterators |-> FALSE]
  /\ taxLog = <<>>

\* Client code that makes no call on an iterator.
NoIteratorCalls == itBudget = [i \in Iterators |-> 0]

\* Everything but the calls the client code makes.
InitLoop ==
  /\ now = 0
  /\ called = [i \in Invocations |-> FALSE]
  /\ maxRetries = [i \in Invocations |-> 0]
  /\ retries = [i \in Invocations |-> 0]
  /\ delay = [i \in Invocations |-> 0]
  /\ outer = [i \in Invocations |-> NoPromise]
  /\ opPromise = [i \in Invocations |-> NoPromise]
  /\ chained = [i \in Invocations |-> NoPromise]
  /\ caught = [i \in Invocations |-> NoPromise]
  /\ timer = [i \in Invocations |-> NoTimer]
  /\ calls = [i \in Invocations |-> 0]
  /\ inFlight = [i \in Invocations |-> 0]
  /\ fails = [i \in Invocations |-> 0]
  /\ trace = [i \in Invocations |-> <<>>]
  /\ calledAt = [i \in Invocations |-> 0]
  /\ invokedAt = [i \in Invocations |-> 0]
  /\ InitObjects

\* Client code that calls retryOperation once, as src/retry/index.js does.
Init ==
  /\ clients = [i \in Invocations |-> IF i = 1 THEN Args ELSE {}]
  /\ InitLoop
  /\ NoIteratorCalls

\* Client code that calls retryOperation twice, so that two invocations run
\* side by side.
InitConc ==
  /\ clients = [i \in Invocations |-> ConcArgs]
  /\ InitLoop
  /\ NoIteratorCalls

\* Client code that makes the call of the README,
\* retryOperation(fetchData, 1000, 3).
InitReadme ==
  /\ clients = [i \in Invocations |->
                  IF i = 1 THEN {<<ReadmeSecondArg, ReadmeThirdArg>>} ELSE {}]
  /\ InitLoop
  /\ NoIteratorCalls

attemptOperationUnlogged(i) ==
  /\ UNCHANGED trace
  /\ calls' = [calls EXCEPT ![i] = @ + 1]
  /\ inFlight' = [inFlight EXCEPT ![i] = @ + 1]
  /\ invokedAt' = [invokedAt EXCEPT ![i] = now]
  /\ opPromise' = [opPromise EXCEPT ![i] = PendingPromise]
  /\ chained' = [chained EXCEPT ![i] = PendingPromise]
  /\ caught' = [caught EXCEPT ![i] = PendingPromise]

\* function attemptOperation(): log the retries left, call operation() and
\* chain .then(resolve).catch(handler) on the promise it returns.
attemptOperation(i) ==
  /\ trace' = [trace EXCEPT ![i] = Append(@, retries'[i])]
  /\ calls' = [calls EXCEPT ![i] = @ + 1]
  /\ inFlight' = [inFlight EXCEPT ![i] = @ + 1]
  /\ invokedAt' = [invokedAt EXCEPT ![i] = now]
  /\ opPromise' = [opPromise EXCEPT ![i] = PendingPromise]
  /\ chained' = [chained EXCEPT ![i] = PendingPromise]
  /\ caught' = [caught EXCEPT ![i] = PendingPromise]

\* retryOperation(operation, n, d): the executor of the new promise runs
\* synchronously and makes the first attempt.
retryOperation(i, n, d) ==
  /\ UNCHANGED objectVars
  /\ <<n, d>> \in clients[i]
  /\ ~called[i]
  /\ called' = [called EXCEPT ![i] = TRUE]
  /\ calledAt' = [calledAt EXCEPT ![i] = now]
  /\ maxRetries' = [maxRetries EXCEPT ![i] = n]
  /\ retries' = [retries EXCEPT ![i] = n]
  /\ delay' = [delay EXCEPT ![i] = d]
  /\ outer' = [outer EXCEPT ![i] = PendingPromise]
  /\ attemptOperation(i)
  /\ UNCHANGED <<clients, now, timer, fails>>

\* The promise returned by operation() is fulfilled by the environment.
OperationFulfils(i, v) ==
  /\ UNCHANGED objectVars
  /\ opPromise[i].state = "pending"
  /\ opPromise' = [opPromise EXCEPT ![i] = Fulfilled(v)]
  /\ inFlight' = [inFlight EXCEPT ![i] = @ - 1]
  /\ UNCHANGED <<clients, now, called, maxRetries, retries, delay, outer,
                 chained, caught, timer, calls, fails, trace, calledAt,
                 invokedAt>>

\* The promise returned by operation() is rejected by the environment.
OperationRejects(i, e) ==
  /\ UNCHANGED objectVars
  /\ opPromise[i].state = "pending"
  /\ opPromise' = [opPromise EXCEPT ![i] = Rejected(e)]
  /\ fails' = [fails EXCEPT ![i] = @ + 1]
  /\ inFlight' = [inFlight EXCEPT ![i] = @ - 1]
  /\ UNCHANGED <<clients, now, called, maxRetries, retries, delay, outer,
                 chained, caught, timer, calls, trace, calledAt, invokedAt>>

\* .then(resolve): the reaction job of the operation's promise.  On
\* fulfilment resolve(value) is called and the chained promise is fulfilled
\* with what resolve returns; a rejection passes through to the chained
\* promise.
ThenReaction(i) ==
  /\ UNCHANGED objectVars
  /\ Settled(opPromise[i])
  /\ chained[i].state = "pending"
  /\ IF opPromise[i].state = "fulfilled"
       THEN /\ outer' = [outer EXCEPT ![i] = Resolve(@, opPromise[i].value)]
            /\ chained' = [chained EXCEPT ![i] = Fulfilled(Undefined)]
       ELSE /\ chained' = [chained EXCEPT ![i] = Rejected(opPromise[i].value)]
            /\ UNCHANGED outer
  /\ UNCHANGED <<clients, now, called, maxRetries, retries, delay, opPromise,
                 caught, timer, calls, inFlight, fails, trace, calledAt,
                 invokedAt>>

CatchReactionSharedCounter(i) ==
  /\ UNCHANGED objectVars
  /\ Settled(chained[i])
  /\ caught[i].state = "pending"
  /\ caught' = [caught EXCEPT ![i] = Fulfilled(Undefined)]
  /\ IF HandlerRuns(chained[i])
       THEN IF Exhausted(retries[1])
              THEN /\ outer' = [outer EXCEPT ![i] = Reject(@, ExhaustedError)]
                   /\ UNCHANGED <<retries, timer>>
              ELSE /\ retries' = [retries EXCEPT ![1] = Decrement(@)]
                   /\ timer' = [timer EXCEPT ![i] = setTimeout(now, delay[i])]
                   /\ UNCHANGED outer
       ELSE UNCHANGED <<outer, retries, timer>>
  /\ UNCHANGED <<clients, now, called, maxRetries, delay, opPromise, chained,
                 calls, inFlight, fails, trace, calledAt, invokedAt>>

CatchReactionSyncRetry(i) ==
  /\ UNCHANGED objectVars
  /\ Settled(chained[i])
  /\ caught[i].state = "pending"
  /\ IF HandlerRuns(chained[i])
       THEN IF Exhausted(retries[i])
              THEN /\ outer' = [outer EXCEPT ![i] = Reject(@, ExhaustedError)]
                   /\ caught' = [caught EXCEPT ![i] = Fulfilled(Undefined)]
                   /\ UNCHANGED <<retries, timer, opPromise, chained, calls,
                                  inFlight, trace, invokedAt>>
              ELSE /\ retries' = [retries EXCEPT ![i] = Decrement(@)]
                   /\ IF delay[i] = 0
                        THEN attemptOperation(i) /\ UNCHANGED timer
                        ELSE /\ timer' = [timer EXCEPT
                                            ![i] = setTimeout(now, delay[i])]
                             /\ caught' = [caught EXCEPT
                                             ![i] = Fulfilled(Undefined)]
                             /\ UNCHANGED <<opPromise, chained, calls,
                                            inFlight, trace, invokedAt>>
                   /\ UNCHANGED outer
       ELSE /\ caught' = [caught EXCEPT ![i] = Fulfilled(Undefined)]
            /\ UNCHANGED <<outer, retries, timer, opPromise, chained, calls,
                           inFlight, trace, invokedAt>>
  /\ UNCHANGED <<clients, now, called, maxRetries, delay, fails, calledAt>>

\* .catch(() => { ... }): the reaction job of the chained promise.  The
\* handler takes no argument; it runs only on rejection.
CatchReaction(i) ==
  /\ UNCHANGED objectVars
  /\ Settled(chained[i])
  /\ caught[i].state = "pending"
  /\ caught' = [caught EXCEPT ![i] = Fulfilled(Undefined)]
  /\ IF HandlerRuns(chained[i])
       THEN IF Exhausted(retries[i])
              THEN /\ outer' = [outer EXCEPT ![i] = Reject(@, ExhaustedError)]
                   /\ UNCHANGED <<retries, timer>>
              ELSE /\ retries' = [retries EXCEPT ![i] = Decrement(@)]
                   /\ timer' = [timer EXCEPT ![i] = setTimeout(now, delay[i])]
                   /\ UNCHANGED outer
       ELSE UNCHANGED <<outer, retries, timer>>
  /\ UNCHANGED <<clients, now, called, maxRetries, delay, opPromise, chained,
                 calls, inFlight, fails, trace, calledAt, invokedAt>>

\* The timer armed by the handler expires and runs attemptOperation.
TimerFires(i) ==
  /\ UNCHANGED objectVars
  /\ timer[i] # NoTimer
  /\ now >= timer[i]
  /\ timer' = [timer EXCEPT ![i] = AfterFire(now, delay[i])]
  /\ UNCHANGED retries
  /\ attemptOperation(i)
  /\ UNCHANGED <<clients, now, called, maxRetries, delay, outer, fails,
                 calledAt>>

\* Time passes.  The clock is stopped at MaxTime unless an armed timer is
\* not yet due.
Tick ==
  /\ UNCHANGED objectVars
  /\ \/ now < MaxTime
     \/ \E i \in Invocations : timer[i] # NoTimer /\ timer[i] > now
  /\ now' = now + 1
  /\ UNCHANGED <<clients, called, maxRetries, retries, delay, outer,
                 opPromise, chained, caught, timer, calls, inFlight, fails,
                 trace, calledAt, invokedAt>>

Next ==
  \/ \E i \in Invocations : \E a \in clients[i] : retryOperation(i, a[1], a[2])
  \/ \E i \in Invocations, v \in Values : OperationFulfils(i, v)
  \/ \E i \in Invocations, e \in Reasons : OperationRejects(i, e)
  \/ \E i \in Invocations : ThenReaction(i)
  \/ \E i \in Invocations : CatchReaction(i)
  \/ \E i \in Invocations : TimerFires(i)
  \/ Tick

Spec == Init /\ [][Next]_vars

\* Every operation promise settles, every reaction job runs, time passes
\* and every due timer runs its callback.
Fairness ==
  \A i \in Invocations :
    /\ WF_vars(\E v \in Values : OperationFulfils(i, v))
    /\ WF_vars(\E e \in Reasons : OperationRejects(i, e))
    /\ WF_vars(ThenReaction(i))
    /\ WF_vars(CatchReaction(i))
    /\ WF_vars(TimerFires(i))
    /\ WF_vars(Tick)

LiveSpec == Init /\ [][Next]_vars /\ Fairness

ConcSpec == InitConc /\ [][Next]_vars

ReadmeSpec == InitReadme /\ [][Next]_vars

\* ---- Singleton: DatabaseConnection ----------------------------------------

\* No call of retryOperation is made; the other snippets run.
InitIdle ==
  /\ clients = [i \in Invocations |-> {}]
  /\ InitLoop
  /\ NoIteratorCalls

ConstructorResultThis(inst, this) == this

\* return DatabaseConnection.instance: an object returned by a constructor
\* is what the `new' expression evaluates to.
ConstructorResult(inst, this) == inst

\* new DatabaseConnection()
NewDatabaseConnection ==
  /\ Len(dbReturned) < MaxNew
  /\ LET this == dbObjects + 1
         first == dbInstance = NoObject
         inst == IF first THEN this ELSE dbInstance
     IN  /\ dbObjects' = this
         /\ dbInstance' = inst
         /\ dbConnects' = IF first THEN dbConnects + 1 ELSE dbConnects
         /\ dbReturned' = Append(dbReturned, ConstructorResult(inst, this))
  /\ UNCHANGED <<retryVars, factoryVars, observerVars, builderVars,
                 strategyVars, proxyVars,
                 iteratorVars, visitorVars>>

\* ---- Factory: PizzaFactory ------------------------------------------------
PizzaTypes == {"cheese", "pepperoni", "veggie", "hawaiian"}
KnownPizzaTypes == {"cheese", "pepperoni", "veggie"}

Returned(class) == [kind |-> "returned", class |-> class, message |-> ""]

Threw(class, message) == [kind |-> "threw", class |-> class, message |-> message]

\* The members class PizzaFactory declares: createPizza is declared without
\* `static', so it is a method of the instances and not of the class.
StaticMethods == {}
PrototypeMethods == {"createPizza"}

createPizzaWithDefault(type) ==
  CASE type = "cheese" -> Returned("CheesePizza")
    [] type = "pepperoni" -> Returned("PepperoniPizza")
    [] type = "veggie" -> Returned("VeggiePizza")
    [] OTHER -> Returned("CheesePizza")

\* createPizza(type) { switch (type) ... }
createPizza(type) ==
  CASE type = "cheese" -> Returned("CheesePizza")
    [] type = "pepperoni" -> Returned("PepperoniPizza")
    [] type = "veggie" -> Returned("VeggiePizza")
    [] OTHER -> Threw("Error", "Invalid pizza type")

\* receiver.createPizza(type), where the receiver is the class PizzaFactory
\* or an instance of it: calling a member that does not exist throws a
\* TypeError.
CallCreatePizza(receiver, type) ==
  LET members == IF receiver = "class" THEN StaticMethods
                 ELSE PrototypeMethods
  IN  IF "createPizza" \in members
        THEN createPizza(type)
        ELSE Threw("TypeError", "PizzaFactory.createPizza is not a function")

\* Number of pizza objects the logged calls returned.
PizzasReturned(log) ==
  Cardinality({k \in 1..Len(log) : log[k].outcome.kind = "returned"})

\* The client calls receiver.createPizza(type); a returned pizza is a new
\* object.
CallFactory(receiver, type) ==
  /\ Len(factoryLog) < MaxCreate
  /\ LET outcome == CallCreatePizza(receiver, type)
     IN  factoryLog' = Append(factoryLog,
           [receiver |-> receiver, type |-> type, outcome |-> outcome,
            object |-> IF outcome.kind = "returned"
                         THEN PizzasReturned(factoryLog) + 1
                         ELSE NoObject])
  /\ UNCHANGED <<retryVars, singletonVars, observerVars, builderVars,
                 strategyVars, proxyVars,
                 iteratorVars, visitorVars>>

\* const pizza = PizzaFactory.createPizza(pizzaType)
ClassCreatePizza(type) == CallFactory("class", type)

\* new PizzaFactory().createPizza(type)
InstanceCreatePizza(type) == CallFactory("instance", type)

CreationalNext ==
  \/ NewDatabaseConnection
  \/ \E type \in PizzaTypes : ClassCreatePizza(type)
  \/ \E type \in PizzaTypes : InstanceCreatePizza(type)

CreationalSpec == InitIdle /\ [][CreationalNext]_vars

\* ---- Observer: YouTubeChannel ---------------------------------------------
ChannelName == "TechWorld"
VideoTitles == {"Observer Pattern Explained", "Strategy Pattern in Depth"}

\* list.indexOf(x): the first position of x, counted from 1 here; 0 stands
\* for the -1 of an absent element.
IndexOf(list, x) ==
  IF \E k \in 1..Len(list) : list[k] = x
    THEN CHOOSE k \in 1..Len(list) :
           list[k] = x /\ \A j \in 1..(k - 1) : list[j] # x
    ELSE 0

\* list.splice(index, 1): the list without the element at index.
Splice(list, index) ==
  [k \in 1..(Len(list) - 1) |-> IF k < index THEN list[k] ELSE list[k + 1]]

\* Number of entries of list whose subscriber is s.
Count(list, s) == Cardinality({k \in 1..Len(list) : list[k] = s})

\* The subscribers the update calls of a notification run were made on.
Recipients(notes) == [k \in 1..Len(notes) |-> notes[k].to]

\* subscribe(subscriber)
Subscribe(s) ==
  /\ Len(subscribers) < MaxSubscribers
  /\ subscribers' = Append(subscribers, s)
  /\ unsubscribed' = [unsubscribed EXCEPT ![s] = FALSE]
  /\ UNCHANGED <<uploads, notifications>>
  /\ UNCHANGED <<retryVars, singletonVars, factoryVars, builderVars,
                 strategyVars, proxyVars,
                 iteratorVars, visitorVars>>

\* unsubscribe(subscriber)
Unsubscribe(s) ==
  /\ LET index == IndexOf(subscribers, s)
     IN  subscribers' = IF index # 0 THEN Splice(subscribers, index)
                        ELSE subscribers
  /\ unsubscribed' = [unsubscribed EXCEPT ![s] = TRUE]
  /\ UNCHANGED <<uploads, notifications>>
  /\ UNCHANGED <<retryVars, singletonVars, factoryVars, builderVars,
                 strategyVars, proxyVars,
                 iteratorVars, visitorVars>>

notifySubscriberSkippingLast(list, videoTitle) ==
  [k \in 1..(Len(list) - 1) |->
     [to |-> list[k], channelName |-> ChannelName, videoTitle |-> videoTitle]]

\* notifySubscriber(videoTitle): the update calls it makes, in order.
notifySubscriber(list, videoTitle) ==
  [k \in 1..Len(list) |->
     [to |-> list[k], channelName |-> ChannelName, videoTitle |-> videoTitle]]

\* uploadVideo(videoTitle)
UploadVideo(videoTitle) ==
  /\ Len(uploads) < MaxUploads
  /\ uploads' = Append(uploads, videoTitle)
  /\ notifications' = notifySubscriber(subscribers, videoTitle)
  /\ UNCHANGED <<subscribers, unsubscribed>>
  /\ UNCHANGED <<retryVars, singletonVars, factoryVars, builderVars,
                 strategyVars, proxyVars,
                 iteratorVars, visitorVars>>

ObserverNext ==
  \/ \E s \in Subscribers : Subscribe(s)
  \/ \E s \in Subscribers : Unsubscribe(s)
  \/ \E videoTitle \in VideoTitles : UploadVideo(videoTitle)

ObserverSpec == InitIdle /\ [][ObserverNext]_vars

\* ---- Builder: PizzaBuilder ------------------------------------------------
Sizes == {"medium", "large"}
Crusts == {"thin", "stuffed"}
Toppings == {"pepperoni", "mushrooms"}

\* new Pizza(size, crust, cheese, toppings): the fields hold the arguments;
\* toppings is a reference to an array.
NewPizza(size, crust, cheese, toppings) ==
  [size |-> size, crust |-> crust, cheese |-> cheese, toppings |-> toppings]

\* A Pizza as the client sees it in heap: its fields, with the contents of
\* the array its toppings field refers to.
View(pizza, heap) ==
  [size |-> pizza.size, crust |-> pizza.crust, cheese |-> pizza.cheese,
   toppings |-> heap[pizza.toppings]]

\* setSize(size)
SetSize(size) ==
  /\ builder' = [builder EXCEPT !.size = size]
  /\ UNCHANGED <<arrays, pizzas, asBuilt>>
  /\ UNCHANGED <<retryVars, singletonVars, factoryVars, observerVars,
                 strategyVars, proxyVars,
                 iteratorVars, visitorVars>>

\* setCrust(crust)
SetCrust(crust) ==
  /\ builder' = [builder EXCEPT !.crust = crust]
  /\ UNCHANGED <<arrays, pizzas, asBuilt>>
  /\ UNCHANGED <<retryVars, singletonVars, factoryVars, observerVars,
                 strategyVars, proxyVars,
                 iteratorVars, visitorVars>>

\* addCheese()
AddCheese ==
  /\ builder' = [builder EXCEPT !.cheese = TRUE]
  /\ UNCHANGED <<arrays, pizzas, asBuilt>>
  /\ UNCHANGED <<retryVars, singletonVars, factoryVars, observerVars,
                 strategyVars, proxyVars,
                 iteratorVars, visitorVars>>

\* addTopping(topping): this.toppings.push(topping)
AddTopping(topping) ==
  /\ Len(arrays[builder.toppings]) < MaxToppings
  /\ arrays' = [arrays EXCEPT ![builder.toppings] = Append(@, topping)]
  /\ UNCHANGED <<builder, pizzas, asBuilt>>
  /\ UNCHANGED <<retryVars, singletonVars, factoryVars, observerVars,
                 strategyVars, proxyVars,
                 iteratorVars, visitorVars>>

\* build()
Build ==
  /\ Len(pizzas) < MaxPizzas
  /\ LET pizza == NewPizza(builder.size, builder.crust, builder.cheese,
                           builder.toppings)
     IN  /\ pizzas' = Append(pizzas, pizza)
         /\ asBuilt' = Append(asBuilt, View(pizza, arrays))
  /\ UNCHANGED <<builder, arrays>>
  /\ UNCHANGED <<retryVars, singletonVars, factoryVars, observerVars,
                 strategyVars, proxyVars,
                 iteratorVars, visitorVars>>

BuilderNext ==
  \/ \E size \in Sizes : SetSize(size)
  \/ \E crust \in Crusts : SetCrust(crust)
  \/ AddCheese
  \/ \E topping \in Toppings : AddTopping(topping)
  \/ Build

BuilderSpec == InitIdle /\ [][BuilderNext]_vars

\* ---- Strategy: PaymentProcessor -------------------------------------------
Null == "null"
Strategies == {"CreditCardPayment", "PayPalPayment", "BankTransferPayment"}
Amounts == {50, 100}

\* constructor() { this.strategy = null; }: the constructor declares no
\* parameter, so an argument passed to it is ignored.
InitialStrategy(arg) == Null

\* new PaymentProcessor(arg), with arg a strategy or nothing.
NewPaymentProcessor(arg) ==
  /\ ~processor.constructed
  /\ processor' = [constructed |-> TRUE, arg |-> arg,
                   strategy |-> InitialStrategy(arg), set |-> FALSE]
  /\ UNCHANGED payLog
  /\ UNCHANGED <<retryVars, singletonVars, factoryVars, observerVars,
                 builderVars, proxyVars,
                 iteratorVars, visitorVars>>

\* setStrategy(strategy)
SetStrategy(strategy) ==
  /\ processor.constructed
  /\ processor' = [processor EXCEPT !.strategy = strategy, !.set = TRUE]
  /\ UNCHANGED payLog
  /\ UNCHANGED <<retryVars, singletonVars, factoryVars, observerVars,
                 builderVars, proxyVars,
                 iteratorVars, visitorVars>>

\* processPayment(amount): this.strategy.pay(amount); reading pay of null
\* throws a TypeError.
ProcessPayment(amount) ==
  /\ processor.constructed
  /\ Len(payLog) < MaxPayments
  /\ payLog' = Append(payLog,
       [amount |-> amount, arg |-> processor.arg, afterSet |-> processor.set,
        by |-> processor.strategy,
        outcome |-> IF processor.strategy \in Strategies THEN "paid"
                    ELSE "TypeError"])
  /\ UNCHANGED processor
  /\ UNCHANGED <<retryVars, singletonVars, factoryVars, observerVars,
                 builderVars, proxyVars,
                 iteratorVars, visitorVars>>

StrategyNext ==
  \/ \E arg \in Strategies \cup {Undefined} : NewPaymentProcessor(arg)
  \/ \E strategy \in Strategies : SetStrategy(strategy)
  \/ \E amount \in Amounts : ProcessPayment(amount)

StrategySpec == InitIdle /\ [][StrategyNext]_vars

\* ---- Proxy: ProxyInternetAccess -------------------------------------------
Sites == {"allowedSite.com", "restrictedSite.com", "blockedSite.com",
          "www.blockedSite.com"}

IncludesFirstOnly(list, x) == Len(list) >= 1 /\ list[1] = x

\* list.includes(x)
Includes(list, x) == \E k \in 1..Len(list) : list[k] = x

\* ProxyInternetAccess.connectTo(site): forward to InternetAccess.connectTo
\* unless the site is blocked.
ConnectTo(site) ==
  /\ Len(requested) < MaxConnects
  /\ requested' = Append(requested, site)
  /\ forwarded' = IF Includes(blockedSites, site) THEN forwarded
                  ELSE Append(forwarded, site)
  /\ UNCHANGED blockedSites
  /\ UNCHANGED <<retryVars, singletonVars, factoryVars, observerVars,
                 builderVars, strategyVars,
                 iteratorVars, visitorVars>>

ProxyNext == \E site \in Sites : ConnectTo(site)

ProxySpec == InitIdle /\ [][ProxyNext]_vars

\* ---- Iterator: Playlist, PlaylistIterator ---------------------------------
Songs == {"Song A", "Song B"}
NoRead == 0 - 1

\* array[k] with k counted from 0, as JavaScript reads it: undefined outside
\* the array.
At(array, k) == IF k \in 0..(Len(array) - 1) THEN array[k + 1] ELSE Undefined

hasNextInclusive(index, array) == index <= Len(array)

\* hasNext(): this.currentIndex < this.playlist.songs.length
hasNext(index, array) == index < Len(array)

\* hasPrevious(): this.currentIndex > 0
hasPrevious(index) == index > 0

nextUnguarded(index, array) ==
  [ret |-> At(array, index), read |-> index, index |-> index + 1]

\* next(): what it returns, the index it reads and the currentIndex it
\* leaves, from the currentIndex it finds.
next(index, array) ==
  IF hasNext(index, array)
  THEN [ret |-> At(array, index), read |-> index, index |-> index + 1]
  ELSE [ret |-> Null, read |-> NoRead, index |-> index]

previousUnguarded(index, array) ==
  [ret |-> At(array, index - 1), read |-> index - 1, index |-> index - 1]

\* previous(), likewise: --this.currentIndex is decremented before the read.
previous(index, array) ==
  IF hasPrevious(index)
  THEN [ret |-> At(array, index - 1), read |-> index - 1, index |-> index - 1]
  ELSE [ret |-> Null, read |-> NoRead, index |-> index]

\* playlist.addSong(song)
AddSong(song) ==
  /\ Len(songs) < MaxSongs
  /\ songs' = Append(songs, song)
  /\ addedSince' = [i \in Iterators |->
                      addedSince[i] \/ iterators[i].created]
  /\ UNCHANGED <<iterators, itLog, itBudget>>
  /\ UNCHANGED <<retryVars, singletonVars, factoryVars, observerVars,
                 builderVars, strategyVars, proxyVars, visitorVars>>

\* playlist.getIterator(): new PlaylistIterator(playlist), currentIndex 0.
GetIterator(i) ==
  /\ itBudget[i] > 0
  /\ ~iterators[i].created
  /\ iterators' = [iterators EXCEPT ![i] =
                     [created |-> TRUE, currentIndex |-> 0]]
  /\ UNCHANGED <<songs, itLog, addedSince, itBudget>>
  /\ UNCHANGED <<retryVars, singletonVars, factoryVars, observerVars,
                 builderVars, strategyVars, proxyVars, visitorVars>>

songsCopied(i) ==
  IF addedSince[i] THEN SubSeq(songs, 1, Len(songs) - 1) ELSE songs

\* this.playlist.songs, as iterator i reads it: this.playlist = playlist
\* keeps the playlist itself, so the array is the playlist's own.
songsSeen(i) == songs

\* A call of next() or previous() on iterator i with outcome r; the log
\* keeps what hasNext() and hasPrevious() answered when it was made.
IteratorCall(i, op, r) ==
  /\ iterators[i].created
  /\ Len(itLog[i]) < itBudget[i]
  /\ iterators' = [iterators EXCEPT ![i].currentIndex = r.index]
  /\ itLog' = [itLog EXCEPT ![i] = Append(@,
       [op |-> op, ret |-> r.ret, read |-> r.read, length |-> Len(songs),
        before |-> iterators[i].currentIndex,
        hasNext |-> hasNext(iterators[i].currentIndex, songsSeen(i)),
        hasPrevious |-> hasPrevious(iterators[i].currentIndex)])]
  /\ UNCHANGED <<songs, addedSince, itBudget>>
  /\ UNCHANGED <<retryVars, singletonVars, factoryVars, observerVars,
                 builderVars, strategyVars, proxyVars, visitorVars>>

\* iterator.next()
IteratorNext(i) ==
  IteratorCall(i, "next", next(iterators[i].currentIndex, songsSeen(i)))

\* iterator.previous()
IteratorPrevious(i) ==
  IteratorCall(i, "previous",
               previous(iterators[i].currentIndex, songsSeen(i)))

IteratorsNext ==
  \/ \E song \in Songs : AddSong(song)
  \/ \E i \in Iterators : GetIterator(i)
  \/ \E i \in Iterators : IteratorNext(i)
  \/ \E i \in Iterators : IteratorPrevious(i)

\* The client code of the snippet: one iterator on the playlist.
InitIterator ==
  /\ clients = [i \in Invocations |-> {}]
  /\ InitLoop
  /\ itBudget = [i \in Iterators |-> IF i = 1 THEN MaxCalls ELSE 0]

\* Client code that takes two iterators on the one playlist.
InitIterators ==
  /\ clients = [i \in Invocations |-> {}]
  /\ InitLoop
  /\ itBudget = [i \in Iterators |-> MaxConcCalls]

IteratorSpec == InitIterator /\ [][IteratorsNext]_vars

IteratorsSpec == InitIterators /\ [][IteratorsNext]_vars

\* ---- Visitor: TaxVisitor ----------------------------------------------------
\* The rates as integer percentages; a tax is kept in hundredths, price
\* times percentage.
ElectronicsRate == 5
FoodRate == 10
LaptopPrice == 1000

ProductClasses == {"Electronics", "Food"}
Prices == (0 .. MaxPrice) \cup {LaptopPrice}

\* visitElectronics(product): product.price * 0.05
visitElectronics(price) == price * ElectronicsRate

\* visitFood(product): product.price * 0.1
visitFood(price) == price * FoodRate

\* product.accept(visitor): the method of the visitor the class of the
\* product dispatches to, and what it returns.
accept(class, price) ==
  IF class = "Electronics"
  THEN [method |-> "visitElectronics", tax |-> visitElectronics(price)]
  ELSE [method |-> "visitFood", tax |-> visitFood(price)]

\* new class(name, price).accept(taxVisitor)
Accept(class, price) ==
  /\ Len(taxLog) < MaxAccepts
  /\ taxLog' = Append(taxLog,
       [class |-> class, price |-> price,
        method |-> accept(class, price).method,
        tax |-> accept(class, price).tax])
  /\ UNCHANGED <<retryVars, singletonVars, factoryVars, observerVars,
                 builderVars, strategyVars, proxyVars, iteratorVars>>

VisitorNext ==
  \E class \in ProductClasses : \E price \in Prices : Accept(class, price)

VisitorSpec == InitIdle /\ [][VisitorNext]_vars

\* Idle, Attempting, Waiting, Succeeded or Failed, read off the program state.
State(i) ==
  IF ~called[i] THEN "Idle"
  ELSE IF outer[i].state = "fulfilled" THEN "Succeeded"
  ELSE IF outer[i].state = "rejected" THEN "Failed"
  ELSE IF timer[i] # NoTimer THEN "Waiting"
  ELSE "Attempting"

\* ---- retry budget ---------------------------------------------------------

\* The handler of the latest attempt has run to completion.
Handled(i) == caught[i].state = "fulfilled"

\* C1: for maxRetries = n >= 0 and an operation whose every call fails, the
\* operation is called exactly n + 1 times and the result is then rejected
\* with the retries-exhausted error; the result is never rejected after
\* fewer calls and there is never an (n + 2)th call.
ExhaustedAfterAllAttempts ==
  \A i \in Invocations :
    (called[i] /\ maxRetries[i] >= 0) =>
      /\ calls[i] <= maxRetries[i] + 1
      /\ outer[i].state = "rejected" =>
           /\ outer[i].value = ExhaustedError
           /\ calls[i] = maxRetries[i] + 1
           /\ fails[i] = calls[i]
           /\ timer[i] = NoTimer
      /\ (fails[i] = maxRetries[i] + 1 /\ Handled(i)) =>
           /\ outer[i] = Rejected(ExhaustedError)
           /\ calls[i] = maxRetries[i] + 1

\* An always-failing operation has exhausted maxRetries = MaxRetries in
\* MaxRetries + 1 calls.
ExhaustedWitness ==
  \E i \in Invocations :
    /\ maxRetries[i] = MaxRetries /\ outer[i].state = "rejected"
    /\ calls[i] = MaxRetries + 1 /\ fails[i] = MaxRetries + 1

\* C2: for n >= 0 and k in [0, n], an operation that fails k times and then
\* succeeds is called exactly k + 1 times and the result is fulfilled with
\* the value of the (k + 1)th call, unchanged.
SuccessAfterFailures ==
  \A i \in Invocations :
    (called[i] /\ maxRetries[i] >= 0) =>
      /\ (opPromise[i].state = "fulfilled" /\ chained[i].state # "pending") =>
           /\ outer[i] = Fulfilled(opPromise[i].value)
           /\ fails[i] <= maxRetries[i]
           /\ calls[i] = fails[i] + 1
      /\ outer[i].state = "fulfilled" =>
           /\ opPromise[i] = Fulfilled(outer[i].value)
           /\ calls[i] = fails[i] + 1

\* The operation failed as often as the budget allows (k = n) and then
\* succeeded; the result carries its value.
SuccessWitness ==
  \E i \in Invocations :
    /\ maxRetries[i] = MaxRetries /\ fails[i] = MaxRetries
    /\ calls[i] = MaxRetries + 1
    /\ outer[i] = Fulfilled("42")

\* The caller can recover reason from the error err.
Recoverable(err, reason) == err.cause = reason \/ err.message = reason

\* C3: the retries-exhausted error delivered to the caller carries or wraps
\* the failure reason of the last failed attempt.
ExhaustedErrorCarriesReason ==
  \A i \in Invocations :
    outer[i].state = "rejected" =>
      Recoverable(outer[i].value, opPromise[i].value)

\* ---- order of attempts --------------------------------------------------

\* C4: first success wins: once a call of the operation has succeeded the
\* operation is not called again and no timer is armed; an operation that
\* succeeds on its first call is called exactly once, whatever maxRetries.
FirstSuccessWins ==
  [][\A i \in Invocations :
       opPromise[i].state = "fulfilled" =>
         /\ calls'[i] = calls[i]
         /\ opPromise'[i] = opPromise[i]
         /\ timer[i] = NoTimer /\ timer'[i] = NoTimer
         /\ fails[i] = 0 => calls[i] = 1]_vars

\* The first call succeeded with retries to spare and every reaction job
\* of it has run.
FirstSuccessWitness ==
  \E i \in Invocations :
    /\ maxRetries[i] = MaxRetries /\ fails[i] = 0 /\ calls[i] = 1
    /\ outer[i].state = "fulfilled" /\ Handled(i)

\* C5: at most one call of the operation is in flight per invocation, and a
\* new attempt starts only after the previous one has settled as a failure
\* and the timer armed for the retry has come due.
AttemptsAreSequential ==
  [][\A i \in Invocations :
       /\ inFlight[i] <= 1 /\ inFlight'[i] <= 1
       /\ (called[i] /\ calls'[i] # calls[i]) =>
            /\ calls'[i] = calls[i] + 1
            /\ opPromise[i].state = "rejected" /\ Handled(i)
            /\ inFlight[i] = 0
            /\ timer[i] # NoTimer /\ now >= timer[i]]_vars

\* A retry is in flight after an earlier attempt failed.
SequentialWitness ==
  \E i \in Invocations :
    calls[i] = MaxRetries + 1 /\ fails[i] = MaxRetries /\ inFlight[i] = 1

\* C6: the executor moves Idle -> Attempting -> {Succeeded | Failed |
\* Waiting -> Attempting}: to Failed only on a failure with retries = 0, to
\* Waiting only on a failure with retries > 0, which decrements the counter;
\* Succeeded and Failed are absorbing, so the result settles once and for
\* all.
StateMachine ==
  [][\A i \in Invocations :
       (called'[i] /\ maxRetries'[i] >= 0) =>
         LET s == State(i)
             t == State(i)'
             failure == chained[i].state = "rejected"
                          /\ caught[i].state = "pending"
         IN  /\ s # t =>
                  \/ s = "Idle" /\ t = "Attempting"
                  \/ s = "Attempting" /\ t = "Succeeded"
                       /\ opPromise[i].state = "fulfilled"
                  \/ s = "Attempting" /\ t = "Failed" /\ failure
                       /\ retries[i] = 0 /\ retries'[i] = 0
                  \/ s = "Attempting" /\ t = "Waiting" /\ failure
                       /\ retries[i] > 0 /\ retries'[i] = retries[i] - 1
                  \/ s = "Waiting" /\ t = "Attempting"
             /\ (s = t /\ s # "Idle") => retries'[i] = retries[i]
             /\ (failure /\ Handled(i)') => t \in {"Failed", "Waiting"}
             /\ s \in {"Succeeded", "Failed"} => outer'[i] = outer[i]]_vars

\* An invocation went through Waiting as often as it may and ended in
\* Failed.
StateMachineWitness ==
  \E i \in Invocations :
    State(i) = "Failed" /\ maxRetries[i] = MaxRetries /\ retries[i] = 0

\* C7: the first attempt is made at the time retryOperation is called, at
\* least delay elapses between a failed call of the operation and the next
\* call, and every retry of an invocation uses the same delay.
DelayBetweenAttempts ==
  [][\A i \in Invocations :
       /\ called[i] => delay'[i] = delay[i]
       /\ calls'[i] # calls[i] =>
            IF calls[i] = 0
              THEN invokedAt'[i] = calledAt'[i] /\ now' = now
              ELSE /\ invokedAt'[i] >= invokedAt[i] + delay[i]
                   /\ timer[i] <= invokedAt'[i]]_vars

\* With the largest delay, the last retry started no sooner than the retries
\* before it allow.
DelayWitness ==
  \E i \in Invocations :
    /\ delay[i] = MaxDelay /\ calls[i] = MaxRetries + 1
    /\ invokedAt[i] >= calledAt[i] + MaxRetries * MaxDelay

\* ---- termination and concurrent invocations -------------------------------

\* C8: once started, an invocation reaches Succeeded or Failed, provided
\* every operation promise settles and every timer fires.
EventuallySettles ==
  \A i \in Invocations :
    called[i] ~> (State(i) \in {"Succeeded", "Failed"})

\* The invocation used its whole budget, waiting out the largest delay each
\* time, and has settled.
SettlesWitness ==
  /\ maxRetries[1] = MaxRetries /\ delay[1] = MaxDelay
  /\ trace[1][Len(trace[1])] = 0
  /\ State(1) \in {"Succeeded", "Failed"}

\* A run of one invocation on its own: r retries left, f failures of the
\* operation still to be handled, c calls of the operation made.
RECURSIVE Alone(_, _, _)
Alone(r, f, c) ==
  IF f = 0 THEN [calls |-> c, retries |-> r, exhausted |-> FALSE]
  ELSE IF Exhausted(r) THEN [calls |-> c, retries |-> r, exhausted |-> TRUE]
  ELSE Alone(Decrement(r), f - 1, c + 1)

\* A settled invocation made the calls and has the outcome that it has
\* when it runs alone against the same operation.
SoloOutcome(i) ==
  State(i) \in {"Succeeded", "Failed"} =>
    LET a == Alone(maxRetries[i], fails[i], 1)
    IN  /\ calls[i] = a.calls
        /\ retries[i] = a.retries
        /\ (State(i) = "Failed") = a.exhausted
        /\ State(i) = "Failed" => outer[i].value = ExhaustedError
        /\ State(i) = "Succeeded" => outer[i] = opPromise[i]

\* The closure of invocation i changes only in a step of invocation i.
OwnStep(i) ==
  (\/ retries'[i] # retries[i] \/ calls'[i] # calls[i]
   \/ outer'[i] # outer[i] \/ timer'[i] # timer[i]
   \/ delay'[i] # delay[i]) =>
    (\/ called'[i] # called[i] \/ chained'[i] # chained[i]
     \/ caught'[i] # caught[i])

\* C9: invocations that run concurrently share no state: under every
\* interleaving each makes the calls and gets the outcome of a run on its
\* own, and a failure in one never decrements the retries of another.
NoInterference ==
  [][\A i \in Invocations : OwnStep(i) /\ SoloOutcome(i)']_vars

\* Two invocations whose lifetimes overlap have both retried and settled,
\* one as Failed and one as Succeeded.
InterleavedWitness ==
  /\ State(1) = "Failed" /\ fails[1] = 2
  /\ State(2) = "Succeeded" /\ fails[2] = 1
  /\ calledAt[1] <= calledAt[2] /\ calledAt[2] <= invokedAt[1]

\* C10: with delay = 0 a retry is still a scheduled step of its own: the
\* failure handler arms a timer and returns without calling the operation,
\* and the next call is made by the timer's callback.
ZeroDelayStillYields ==
  [][\A i \in Invocations :
       (called[i] /\ delay[i] = 0) =>
         /\ (caught[i].state = "pending" /\ Handled(i)') =>
              /\ calls'[i] = calls[i]
              /\ opPromise'[i] = opPromise[i]
              /\ (chained[i].state = "rejected" /\ retries[i] > 0) =>
                   timer'[i] = now
         /\ calls'[i] # calls[i] =>
              /\ Handled(i) /\ timer[i] # NoTimer
              /\ timer'[i] = NoTimer]_vars

\* A retry with delay 0 is waiting for its timer callback while a reaction
\* job of the other invocation is ready to run first.
ZeroDelayWitness ==
  \E i, j \in Invocations :
    /\ i # j /\ delay[i] = 0 /\ State(i) = "Waiting" /\ now = timer[i]
    /\ Settled(opPromise[j]) /\ chained[j].state = "pending"

\* ---- the retry counter ----------------------------------------------------

\* The handler of invocation i handles a failed attempt in this step.
HandlesFailure(i) ==
  chained[i].state = "rejected" /\ caught[i].state = "pending" /\ Handled(i)'

\* As C11 is worded: for maxRetries >= 0 the retries left are never
\* negative, never increase, go down by exactly one on each failure, and
\* the delay never changes.
RetriesDecrementOnEachFailure ==
  [][\A i \in Invocations :
       (called[i] /\ maxRetries[i] >= 0) =>
         /\ retries'[i] >= 0
         /\ retries'[i] <= retries[i]
         /\ HandlesFailure(i) => retries'[i] = retries[i] - 1
         /\ delay'[i] = delay[i]]_vars

\* C11 (amended): for maxRetries >= 0 the retries left are never negative,
\* never increase, go down by exactly one on each failure that leaves a
\* retry (retries > 0) and stay 0 on the failure that exhausts them, and
\* the delay never changes.
RetriesDecrementOnEachRetry ==
  [][\A i \in Invocations :
       (called'[i] /\ maxRetries'[i] >= 0) =>
         /\ retries'[i] >= 0
         /\ called[i] =>
              /\ retries'[i] <= retries[i]
              /\ delay'[i] = delay[i] /\ maxRetries'[i] = maxRetries[i]
              /\ IF HandlesFailure(i) /\ retries[i] > 0
                   THEN retries'[i] = retries[i] - 1
                   ELSE retries'[i] = retries[i]]_vars

\* Every retry has been used: the counter went from MaxRetries to 0 and the
\* failure that exhausted it left it at 0.
RetriesWitness ==
  \E i \in Invocations :
    /\ maxRetries[i] = MaxRetries
    /\ trace[i] = [k \in 1..(MaxRetries + 1) |-> MaxRetries + 1 - k]
    /\ retries[i] = 0 /\ outer[i].state = "rejected" /\ delay[i] = MaxDelay

\* ---- the arguments of retryOperation --------------------------------------

\* C12: retryOperation takes (operation, delay, retries): the README's call
\* retryOperation(fetchData, 1000, 3) retries up to 3 times, so makes at most
\* 4 calls of the operation, and waits 1000 ms between attempts.
ReadmeCallRetriesThreeTimes ==
  called[1] =>
    /\ maxRetries[1] = 3
    /\ delay[1] = 1000
    /\ calls[1] <= 4

\* ---- Singleton and Factory ------------------------------------------------

\* C13: every `new DatabaseConnection()' evaluates to the same instance,
\* connectToDatabase has run exactly once, on the first construction, and
\* DatabaseConnection.instance never changes once it is set.
OneInstance ==
  [][/\ \A k \in 1..Len(dbReturned') :
          dbReturned'[k] = dbReturned'[1] /\ dbReturned'[k] = dbInstance'
     /\ Len(dbReturned') >= 1 => dbConnects' = 1
     /\ Len(dbReturned) = 0 => dbConnects = 0
     /\ dbInstance # NoObject => dbInstance' = dbInstance]_vars

\* MaxNew objects were allocated by `new' and every call evaluated to the
\* first one.
OneInstanceWitness ==
  /\ Len(dbReturned) = MaxNew /\ dbObjects = MaxNew
  /\ dbReturned[MaxNew] = 1 /\ dbConnects = 1

\* The class of pizza each known type stands for.
PizzaClass(type) ==
  CASE type = "cheese" -> "CheesePizza"
    [] type = "pepperoni" -> "PepperoniPizza"
    [] type = "veggie" -> "VeggiePizza"

\* C18: PizzaFactory.createPizza(type), called on the class, returns a new
\* CheesePizza, PepperoniPizza or VeggiePizza for "cheese", "pepperoni" or
\* "veggie".
ClassCallReturnsPizza ==
  \A k \in 1..Len(factoryLog) :
    (factoryLog[k].receiver = "class"
       /\ factoryLog[k].type \in KnownPizzaTypes) =>
      /\ factoryLog[k].outcome = Returned(PizzaClass(factoryLog[k].type))
      /\ factoryLog[k].object # NoObject
      /\ \A j \in 1..(k - 1) : factoryLog[j].object # factoryLog[k].object

\* C19: createPizza(type) with a type other than "cheese", "pepperoni" or
\* "veggie" throws an Error and returns no pizza object.
UnknownTypeThrows ==
  \A k \in 1..Len(factoryLog) :
    factoryLog[k].type \notin KnownPizzaTypes =>
      /\ factoryLog[k].outcome.kind = "threw"
      /\ factoryLog[k].outcome.class \in {"Error", "TypeError"}
      /\ factoryLog[k].object = NoObject
      /\ factoryLog[k].receiver = "instance" =>
           factoryLog[k].outcome = Threw("Error", "Invalid pizza type")

\* createPizza ran its default case after it had returned a pizza.
UnknownTypeWitness ==
  /\ Len(factoryLog) = 2
  /\ factoryLog[1].receiver = "instance" /\ factoryLog[1].type = "veggie"
  /\ factoryLog[1].outcome.kind = "returned"
  /\ factoryLog[2].receiver = "instance" /\ factoryLog[2].type = "hawaiian"
  /\ factoryLog[2].outcome.kind = "threw"

\* ---- Observer -------------------------------------------------------------

\* C14: after unsubscribe(s) has returned, s gets no notification from a
\* later uploadVideo until s is subscribed again, whatever subscribe and
\* unsubscribe calls came before.
UnsubscribedNotNotified ==
  [][uploads' # uploads =>
       \A s \in Subscribers :
         unsubscribed[s] => Count(Recipients(notifications'), s) = 0]_vars

\* The update calls of the upload made in this step carry the channel name
\* and the title uploaded.
UpdateArguments ==
  \A k \in 1..Len(notifications') :
    /\ notifications'[k].channelName = ChannelName
    /\ notifications'[k].videoTitle = uploads'[Len(uploads')]

\* As C15 is worded: each uploadVideo(v) calls update(channelName, v)
\* exactly once on every subscriber in the list and on no one else.
NotifiedExactlyOnce ==
  [][uploads' # uploads =>
       /\ UpdateArguments
       /\ \A s \in Subscribers :
            Count(Recipients(notifications'), s) =
              IF Count(subscribers, s) > 0 THEN 1 ELSE 0]_vars

\* C15 (amended): each uploadVideo(v) calls update(channelName, v) once for
\* every entry of the subscribers list, in list order: exactly once on a
\* subscriber that is in the list once, n times on one that is in it n
\* times, and never on one that is not in it.
NotifiedOncePerSubscription ==
  [][uploads' # uploads =>
       /\ UpdateArguments
       /\ Len(notifications') = Len(subscribers)
       /\ \A k \in 1..Len(subscribers) :
            notifications'[k].to = subscribers[k]
       /\ \A s \in Subscribers :
            Count(Recipients(notifications'), s) = Count(subscribers, s)]_vars

\* An upload notified User1 twice and User2 once.
NotifiedWitness ==
  /\ Len(uploads) = 2
  /\ Recipients(notifications) = <<"User1", "User2", "User1">>
  /\ subscribers = <<"User1", "User2", "User1">>

\* ---- Builder --------------------------------------------------------------

\* C16: no later call on the builder changes a field of a Pizza that
\* build() has returned, its list of toppings included, and two pizzas
\* built from one builder share no mutable state.
BuiltPizzaImmutable ==
  \A k \in 1..Len(pizzas) :
    /\ View(pizzas[k], arrays) = asBuilt[k]
    /\ \A j \in 1..Len(pizzas) :
         j # k => pizzas[j].toppings # pizzas[k].toppings

\* ---- Strategy and Proxy ---------------------------------------------------

\* C17: a PaymentProcessor constructed with a strategy uses it:
\* processPayment(amount) called before any setStrategy calls pay(amount)
\* on the strategy given to the constructor and does not fail.
ConstructorStrategyUsed ==
  \A k \in 1..Len(payLog) :
    (payLog[k].arg \in Strategies /\ ~payLog[k].afterSet) =>
      payLog[k].outcome = "paid" /\ payLog[k].by = payLog[k].arg

\* C20: the real InternetAccess.connectTo is called for a site if and only
\* if the site is not restrictedSite.com or blockedSite.com, and connectTo
\* never changes the blocked list.
OnlyUnblockedForwarded ==
  [][requested' # requested =>
       LET site == requested'[Len(requested')]
           blocked == site \in {"restrictedSite.com", "blockedSite.com"}
       IN  /\ forwarded' = IF blocked THEN forwarded
                           ELSE Append(forwarded, site)
           /\ \A k \in 1..Len(forwarded') :
                forwarded'[k] \notin {"restrictedSite.com", "blockedSite.com"}
           /\ blockedSites' = blockedSites
           /\ blockedSites = InitialBlockedSites]_vars

\* Both blocked sites were requested and dropped, the others went through.
ForwardedWitness ==
  /\ requested = <<"restrictedSite.com", "allowedSite.com", "blockedSite.com",
                   "www.blockedSite.com">>
  /\ forwarded = <<"allowedSite.com", "www.blockedSite.com">>

\* C26: for maxRetries = n >= 0, while an attempt is in flight the calls of
\* the operation made so far plus the retries left are n + 1; so the
\* operation is never called more than n + 1 times, whatever succeeds or
\* fails.
CallsPlusRetriesLeft ==
  \A i \in Invocations :
    (called[i] /\ maxRetries[i] >= 0) =>
      /\ inFlight[i] > 0 => calls[i] + retries[i] = maxRetries[i] + 1
      /\ calls[i] <= maxRetries[i] + 1

\* The second of MaxRetries + 1 possible calls is in flight.
CallsPlusRetriesWitness ==
  \E i \in Invocations :
    /\ maxRetries[i] = MaxRetries /\ inFlight[i] = 1
    /\ calls[i] = 2 /\ retries[i] = MaxRetries - 1

\* ---- Iterator --------------------------------------------------------------

\* The number of next() calls in a log.
Forward(log) == Cardinality({k \in 1..Len(log) : log[k].op = "next"})

\* The calls made on iterator i so far are those of the two loops of the
\* client code on an unchanging playlist: next() while hasNext(), and, once
\* hasNext() was false, previous() while hasPrevious().
ClientLoops(i) ==
  LET log == itLog[i]
      a == Forward(log)
  IN  /\ iterators[i].created
      /\ ~addedSince[i]
      /\ \A k \in 1..Len(log) :
           IF k <= a THEN log[k].op = "next" /\ log[k].hasNext
           ELSE log[k].op = "previous" /\ log[k].hasPrevious
      /\ a < Len(log) => ~log[a + 1].hasNext

\* C21: on a fresh iterator over n songs, next() while hasNext() returns
\* the n songs once each in insertion order and then hasNext() is false;
\* previous() while hasPrevious() then returns them in reverse order and
\* ends with hasPrevious() false.
ForwardThenBackward ==
  \A i \in Iterators :
    ClientLoops(i) =>
      LET log == itLog[i]
          n == Len(songs)
          a == Forward(log)
          b == Len(log) - a
          index == iterators[i].currentIndex
      IN  /\ a <= n
          /\ \A k \in 1..a : log[k].ret = songs[k]
          /\ b = 0 => (hasNext(index, songs) <=> a < n)
          /\ b > 0 =>
               /\ a = n
               /\ b <= n
               /\ \A k \in 1..b : log[a + k].ret = songs[n + 1 - k]
               /\ hasPrevious(index) <=> b < n

\* Both loops of the client code have run to their end over three songs.
ForwardThenBackwardWitness ==
  /\ ClientLoops(1)
  /\ Len(songs) = 3
  /\ songs[1] # songs[2]
  /\ Len(itLog[1]) = 6
  /\ ~hasPrevious(iterators[1].currentIndex)

\* C24: next() called when hasNext() is false returns null and leaves
\* currentIndex unchanged, previous() called when hasPrevious() is false
\* likewise, and no call reads outside the songs array.
ExhaustedIteratorReturnsNull ==
  [][\A i \in Iterators :
       itLog'[i] # itLog[i] =>
         LET call == itLog'[i][Len(itLog'[i])]
             stays == /\ call.ret = Null
                      /\ call.read = NoRead
                      /\ iterators'[i].currentIndex =
                           iterators[i].currentIndex
         IN  /\ (call.op = "next" /\ ~call.hasNext) => stays
             /\ (call.op = "previous" /\ ~call.hasPrevious) => stays
             /\ call.read # NoRead =>
                  /\ call.read \in 0..(Len(songs) - 1)
                  /\ call.ret = songs[call.read + 1]]_vars

\* next() was called at the end of a playlist that has songs, and previous()
\* at its start, and both returned null.
ReturnsNullWitness ==
  \E i \in Iterators : \E j, k \in 1..Len(itLog[i]) :
    /\ itLog[i][j].op = "next" /\ ~itLog[i][j].hasNext
    /\ itLog[i][j].length > 0 /\ itLog[i][j].ret = Null
    /\ itLog[i][k].op = "previous" /\ ~itLog[i][k].hasPrevious
    /\ itLog[i][k].length > 0 /\ itLog[i][k].ret = Null

\* C25: with any number of iterators on one playlist and any interleaving
\* of addSong, getIterator, next and previous (hasNext and hasPrevious
\* change nothing), every iterator keeps 0 <= currentIndex <= songs.length,
\* and a call on one iterator leaves the currentIndex of the others alone.
IndexInRange ==
  [][\A i \in Iterators :
       /\ iterators'[i].currentIndex \in 0..Len(songs')
       /\ itLog'[i] # itLog[i] =>
            \A j \in Iterators \ {i} : iterators'[j] = iterators[j]]_vars

\* Two iterators on one playlist stand at different songs, one of them at
\* the end, after calls on both.
IndexInRangeWitness ==
  /\ iterators[1].currentIndex = Len(songs)
  /\ iterators[2].currentIndex = 1
  /\ Len(songs) = 2
  /\ Len(itLog[1]) = MaxConcCalls /\ Len(itLog[2]) = MaxConcCalls

\* C27: an iterator is a live view of its playlist: when hasNext() is false
\* on an iterator and a song is then added, hasNext() is true on it and its
\* next next() returns the song just added.
AddedSongIsVisited ==
  [][\A i \in Iterators :
       (/\ iterators[i].created
        /\ ~hasNext(iterators[i].currentIndex, songsSeen(i))
        /\ songs' # songs) =>
         /\ hasNext(iterators'[i].currentIndex, songsSeen(i)')
         /\ next(iterators'[i].currentIndex, songsSeen(i)').ret =
              songs'[Len(songs')]]_vars

\* next() returned null at the end of the playlist, a song was added, and
\* the next next() on the same iterator returned that song.
AddedSongWitness ==
  \E i \in Iterators : \E k \in 1..(Len(itLog[i]) - 1) :
    /\ itLog[i][k].op = "next" /\ ~itLog[i][k].hasNext
    /\ itLog[i][k].ret = Null
    /\ itLog[i][k + 1].op = "next" /\ itLog[i][k + 1].hasNext
    /\ itLog[i][k + 1].length = itLog[i][k].length + 1
    /\ itLog[i][k + 1].ret = songs[itLog[i][k + 1].length]

\* ---- negative retries ------------------------------------------------------

\* C28: a negative maxRetries behaves as maxRetries = 0 does: the operation
\* is called once, a failure rejects the result with the retries-exhausted
\* error, no timer is ever armed and the counter is never decremented.
NegativeLikeZero ==
  \A i \in Invocations :
    (called[i] /\ maxRetries[i] <= 0) =>
      /\ calls[i] = 1
      /\ timer[i] = NoTimer
      /\ retries[i] = maxRetries[i]
      /\ outer[i].state = "rejected" => fails[i] = 1
      /\ (fails[i] = 1 /\ Handled(i)) => outer[i] = Rejected(ExhaustedError)

\* retryOperation(operation, -1, d) was rejected after its one call failed.
NegativeWitness ==
  \E i \in Invocations :
    /\ maxRetries[i] < 0 /\ calls[i] = 1 /\ fails[i] = 1
    /\ outer[i] = Rejected(ExhaustedError)

\* ---- Visitor ---------------------------------------------------------------

\* C22: Electronics.accept(taxVisitor) reaches visitElectronics and returns
\* 15% of the price; Food.accept(taxVisitor) reaches visitFood and returns
\* 5% of the price (taxes in hundredths).
TaxRates ==
  \A k \in 1..Len(taxLog) :
    LET call == taxLog[k]
    IN  /\ call.class = "Electronics" =>
             call.method = "visitElectronics" /\ call.tax = call.price * 15
        /\ call.class = "Food" =>
             call.method = "visitFood" /\ call.tax = call.price * 5

\* ---- the diagnostic trace ---------------------------------------------------

\* C23: retryOperation logs the retries left once before every call of the
\* operation and at no other time: the log grows exactly in the steps that
\* call the operation, by the current count, so that the k-th entry is
\* maxRetries - (k - 1); once an always-failing operation has exhausted
\* maxRetries = n >= 0 the log is n, n - 1, ..., 0.
TraceBeforeEachAttempt ==
  [][\A i \in Invocations :
       /\ Len(trace'[i]) = calls'[i]
       /\ IF calls'[i] # calls[i]
            THEN /\ calls'[i] = calls[i] + 1
                 /\ trace'[i] = Append(trace[i], retries'[i])
            ELSE trace'[i] = trace[i]
       /\ \A k \in 1..Len(trace'[i]) :
            trace'[i][k] = maxRetries'[i] - (k - 1)
       /\ (maxRetries'[i] >= 0 /\ State(i)' = "Failed") =>
            trace'[i] = [k \in 1..(maxRetries'[i] + 1) |->
                           maxRetries'[i] + 1 - k]]_vars

\* The last attempt of an always-failing operation is in flight and the log
\* already ends with 0.
TraceWitness ==
  \E i \in Invocations :
    /\ maxRetries[i] = MaxRetries /\ fails[i] = MaxRetries
    /\ opPromise[i] = PendingPromise
    /\ trace[i] = [k \in 1..(MaxRetries + 1) |-> MaxRetries + 1 - k]

TypeOK ==
  /\ now \in Nat
  /\ \A i \in Invocations :
       /\ called[i] \in BOOLEAN
       /\ retries[i] \in Int
       /\ calls[i] \in Nat

====
